---- MODULE Spec2Model ----
(***************************************************************************)
(* Model of the generate_face tool handler of src/src/index.ts.            *)
(*                                                                         *)
(* One invocation of the CallToolRequestSchema handler is an async         *)
(* function: it runs without interruption from one await to the next.      *)
(* Each action below is one such run-to-completion segment:                *)
(*   Begin          lines  99-134  (checks, defaults, mkdir, import issued)*)
(*   ImportResolve  lines 134-142  (import done, loop entered)             *)
(*   FetchResolve   lines 140-173  (bytes received, mask pipeline issued)  *)
(*   MaskResolve    lines 173-185  (buffer encoded, writeFile issued)      *)
(*   WriteResolve   lines 185-209  (file on disk, next iteration/return)   *)
(*   *Reject        lines 210-258  (the awaited promise rejects: catch)    *)
(* Strings that the code takes apart (file names, paths, decimal numbers,  *)
(* messages) are sequences of one-character or one-word strings.           *)
(***************************************************************************)
EXTENDS Integers, Sequences, FiniteSets, TLC

VARIABLES
    request,        \* inv -> the tool request (request.params), fixed on arrival
    pc,             \* inv -> position of the handler
    fileName,       \* inv -> const fileName (line 121), after defaulting
    i,              \* inv -> loop variable (line 138)
    results,        \* inv -> const results (line 135)
    imageContents,  \* inv -> const imageContents (line 136)
    imageBuffer,    \* inv -> option: the buffer of the iteration in progress
    response,       \* inv -> option: the value the handler returned
    thrown,         \* inv -> option: the error the handler threw
    caught,         \* inv -> option: the error bound by catch (line 210)
    errorCode,      \* inv -> option: let errorCode (line 212), a local of catch
    trace,          \* inv -> history: mkdir, and fetch/mask/write starts and ends
    dirs,           \* file system: the directories that exist
    files,          \* file system: path -> content of the regular files
    now             \* the last value Date.now() returned

vars == <<request, pc, fileName, i, results, imageContents, imageBuffer,
          response, thrown, caught, errorCode, trace, dirs, files, now>>

Invocations == {1, 2}

-----------------------------------------------------------------------------
(* Bounds of the model *)

MaxReqCount == 3          \* largest count a single request asks for
MaxConcurrentCount == 2   \* largest count of a request that runs beside another
MaxClock == 1             \* Date.now() ranges over 0..MaxClock

(* Program constants *)

DefaultCount == 1
DefaultSize == 256
DefaultBorderRadius == 32
CountMinimum == 1
CountMaximum == 10
SizeMinimum == 64
SizeMaximum == 1024

-----------------------------------------------------------------------------
(* Option values: <<>> is undefined, <<v>> is v *)

None == <<>>
Some(v) == <<v>>
IsSome(o) == o # <<>>

\* destructuring default (lines 119-126): the default applies to undefined only
OrDefault(o, d) == IF o = None THEN d ELSE o[1]

\* args.x || d for a number (line 162): the default applies to undefined and 0
NumberOr(o, d) == IF o = None \/ o[1] = 0 THEN d ELSE o[1]

\* args.x || d for a string (line 149): the default applies to undefined and ''
StringOr(o, d) == IF o = None \/ o[1] = "" THEN d ELSE o[1]

Min(a, b) == IF a <= b THEN a ELSE b

-----------------------------------------------------------------------------
(* Strings *)

Digits == <<"0", "1", "2", "3", "4", "5", "6", "7", "8", "9">>

\* `${n}` for a non-negative integer: its decimal digits
RECURSIVE NumToString(_)
NumToString(n) ==
    IF n < 10 THEN <<Digits[n + 1]>>
    ELSE NumToString(n \div 10) \o <<Digits[(n % 10) + 1]>>

UpperLetters == <<"A", "B", "C", "D", "E", "F", "G", "H", "I", "J", "K", "L", "M",
                  "N", "O", "P", "Q", "R", "S", "T", "U", "V", "W", "X", "Y", "Z">>
LowerLetters == <<"a", "b", "c", "d", "e", "f", "g", "h", "i", "j", "k", "l", "m",
                  "n", "o", "p", "q", "r", "s", "t", "u", "v", "w", "x", "y", "z">>

LowerChar(c) ==
    IF \E k \in 1..26 : UpperLetters[k] = c
    THEN LowerLetters[CHOOSE k \in 1..26 : UpperLetters[k] = c]
    ELSE c

Lower(s) == [k \in 1..Len(s) |-> LowerChar(s[k])]

EndsWith(s, suffix) ==
    /\ Len(s) >= Len(suffix)
    /\ SubSeq(s, Len(s) - Len(suffix) + 1, Len(s)) = suffix

DropLast(s, n) == SubSeq(s, 1, Len(s) - n)

\* s.includes(t) on token sequences
Includes(s, t) ==
    \E k \in 1..(Len(s) - Len(t) + 1) : SubSeq(s, k, k + Len(t) - 1) = t

DotJpg == <<".", "j", "p", "g">>
DotJpeg == <<".", "j", "p", "e", "g">>
DotPng == <<".", "p", "n", "g">>

\* fileName.replace(/\.(jpg|jpeg|png)$/i, '')  (line 178)
BaseName(name) ==
    IF EndsWith(Lower(name), DotJpg) THEN DropLast(name, 4)
    ELSE IF EndsWith(Lower(name), DotJpeg) THEN DropLast(name, 5)
    ELSE IF EndsWith(Lower(name), DotPng) THEN DropLast(name, 4)
    ELSE name

\* mutant: the index is left out of the name of each of several files
FinalFileNameWithoutIndex(name, count, idx) == BaseName(name) \o DotPng

\* count > 1 ? `${baseName}_${i}.png` : `${baseName}.png`  (lines 179-181)
FinalFileName(name, count, idx) ==
    IF count > 1
    THEN BaseName(name) \o <<"_">> \o NumToString(idx) \o DotPng
    ELSE BaseName(name) \o DotPng

\* mutant: the file is written to the working directory, outputDir left out
FilePathWithoutDir(outputDir, finalFileName) == finalFileName

\* path.join(outputDir, finalFileName)  (line 184)
FilePath(outputDir, finalFileName) == outputDir \o <<"/">> \o finalFileName

\* `${Date.now()}.jpg`  (line 121)
DefaultFileName(t) == NumToString(t) \o DotJpg

-----------------------------------------------------------------------------
(* Images *)

\* n / 2 as an exact rational (Math.min(width, height) / 2 need not be whole)
Half(n) == [num |-> n, den |-> 2]

\* the shape switch (lines 149-171): the mask composited with dest-in, if any
ShapeMask(args, width, height) ==
    LET shape == StringOr(args.shape, "square") IN
    IF shape = "circle"
    THEN LET radius == Half(Min(width, height)) IN
         [kind |-> "circle", cx |-> radius, cy |-> radius, r |-> radius]
    ELSE IF shape = "rounded"
    THEN LET borderRadius == NumberOr(args.borderRadius, DefaultBorderRadius) IN
         [kind |-> "rect", width |-> width, height |-> height,
          rx |-> borderRadius, ry |-> borderRadius]
    ELSE [kind |-> "none"]

\* sharp(response.data).resize(width, height) ... .png().toBuffer() (lines 145-173)
ProcessImage(data, args, width, height) ==
    [format |-> "png", source |-> data, width |-> width, height |-> height,
     mask |-> ShapeMask(args, width, height), partial |-> FALSE]

\* what a write that ran out of space leaves behind
Truncated(buffer) == [buffer EXCEPT !.partial = TRUE]

\* imageBuffer.toString('base64') (line 174)
Base64(buffer) == [encoding |-> "base64", bytes |-> buffer]

\* the entry pushed to imageContents (lines 188-192)
ImageEntry(buffer) ==
    [type |-> "image", mimeType |-> "image/png", data |-> Base64(buffer)]

-----------------------------------------------------------------------------
(* Errors: class is what instanceof tells, message is a sequence of words *)

AxiosError(code, message) == [class |-> "AxiosError", code |-> code, message |-> message]
Error(code, message) == [class |-> "Error", code |-> code, message |-> message]

UnknownToolError(name) == Error("", <<"Unknown tool: ", name>>)
ArgumentsRequiredError == Error("", <<"Arguments are required">>)

\* fs.mkdirSync(undefined): the TypeError of node's path validation
PathTypeError ==
    Error("ERR_INVALID_ARG_TYPE", <<"The \"path\" argument must be of type string">>)

MkdirErrors ==
    { Error("EACCES", <<"EACCES", ": permission denied, mkdir">>),
      Error("EEXIST", <<"EEXIST", ": file already exists, mkdir">>) }

ImportErrors == { Error("ERR_MODULE_NOT_FOUND", <<"Cannot find package 'sharp'">>) }

FetchErrors ==
    { AxiosError("ENOTFOUND", <<"getaddrinfo ", "ENOTFOUND", " thispersondoesnotexist.com">>),
      AxiosError("ECONNREFUSED", <<"connect ", "ECONNREFUSED">>),
      AxiosError("ERR_BAD_RESPONSE", <<"Request failed with status code 503">>) }

MaskErrors ==
    { Error("", <<"Input buffer contains unsupported image format">>),
      Error("", <<"Invalid width", " (1 to 16383)">>),
      Error("", <<"Invalid height", " (1 to 16383)">>),
      Error("", <<"VipsJpeg: Premature end of input file">>) }

WriteErrors(path) ==
    { Error("ENOSPC", <<"ENOSPC", ": no space left on device, write">>),
      Error("ENOENT", <<"ENOENT", ": no such file or directory, open '">> \o path \o <<"'">>),
      Error("EACCES", <<"EACCES", ": permission denied, open '">> \o path \o <<"'">>) }

\* mutant: errorMessage keeps its initial value, the caught message is dropped
CatchErrorUnknown(error) ==
    [code |-> "InternalError", message |-> <<"Unknown error occurred">>]

\* the catch block's errorCode and errorMessage (lines 212-246)
CatchError(error) ==
    IF error.class = "AxiosError"
    THEN IF error.code = "ENOTFOUND"
         THEN [code |-> "MethodNotFound",
               message |-> <<"Failed to fetch image from thispersondoesnotexist.com: Network error.">>]
         ELSE [code |-> "InternalError",
               message |-> <<"Failed to fetch image: ">> \o error.message]
    ELSE IF error.class = "Error"
    THEN IF Includes(error.message, <<"ENOSPC">>)
         THEN [code |-> "InternalError", message |-> <<"No space left on device.">>]
         ELSE IF Includes(error.message, <<"EEXIST">>)
         THEN [code |-> "InternalError", message |-> <<"File already exists.">>]
         ELSE IF Includes(error.message, <<"ENOENT">>)
         THEN [code |-> "InternalError", message |-> <<"No such file or directory.">>]
         ELSE IF Includes(error.message, <<"Invalid width">>)
         THEN [code |-> "InvalidParams", message |-> <<"Invalid width parameter.">>]
         ELSE IF Includes(error.message, <<"Invalid height">>)
         THEN [code |-> "InvalidParams", message |-> <<"Invalid height parameter.">>]
         ELSE IF Includes(error.message, <<"Input buffer contains unsupported image format">>)
         THEN [code |-> "InvalidParams", message |-> <<"Unsupported image format.">>]
         ELSE [code |-> "InternalError", message |-> error.message]
    ELSE [code |-> "InternalError", message |-> error.message]

\* the CallToolResult of the catch block (lines 248-256)
ErrorResult(errorMessage) ==
    [content |-> << [type |-> "text",
                     text |-> <<"Error generating face: ">> \o errorMessage] >>,
     isError |-> TRUE]

\* results.join('\n')
RECURSIVE JoinLines(_)
JoinLines(paths) ==
    IF paths = <<>> THEN <<>>
    ELSE IF Len(paths) = 1 THEN paths[1]
    ELSE paths[1] \o <<"\n">> \o JoinLines(Tail(paths))

\* mutant: the text summary is returned along with the inline images
SuccessResultMixed(returnImageContent, count, paths, images) ==
    [content |->
        images \o << [type |-> "text",
                      text |-> <<"Generated ">> \o NumToString(count)
                               \o <<" face image(s):", "\n">> \o JoinLines(paths)] >>,
     isError |-> FALSE]

\* the content of a successful return (lines 198-209); isError is not set
SuccessResult(returnImageContent, count, paths, images) ==
    [content |->
        IF returnImageContent THEN images
        ELSE << [type |-> "text",
                 text |-> <<"Generated ">> \o NumToString(count)
                          \o <<" face image(s):", "\n">> \o JoinLines(paths)] >>,
     isError |-> FALSE]

-----------------------------------------------------------------------------
(* Requests *)

GenerateFace(args) == [name |-> "generate_face", arguments |-> Some(args)]

DirA == <<"a">>
DirB == <<"b">>

FileNames ==
    { <<"f">>,
      <<"f", ".", "P", "N", "G">>,
      <<"f", ".", "j", "p", "e", "g">>,
      <<"f", ".", "j", "p", "g", ".", "p", "n", "g">>,
      <<"f", ".", "g", "i", "f">>,
      <<"f", "_", "0">> }

\* shape with the borderRadius sent along with it
Shapes ==
    { [shape |-> None, borderRadius |-> None],
      [shape |-> Some(""), borderRadius |-> None],
      [shape |-> Some("square"), borderRadius |-> None],
      [shape |-> Some("circle"), borderRadius |-> None],
      [shape |-> Some("hexagon"), borderRadius |-> None],
      [shape |-> Some("rounded"), borderRadius |-> None],
      [shape |-> Some("rounded"), borderRadius |-> Some(0)],
      [shape |-> Some("rounded"), borderRadius |-> Some(16)] }

ArgsOf(outputDirs, fileNames, counts, widths, heights, shapes, flags) ==
    { [outputDir |-> d, fileName |-> f, count |-> c, width |-> w, height |-> h,
       shape |-> s.shape, borderRadius |-> s.borderRadius, returnImageContent |-> r] :
        d \in outputDirs, f \in fileNames, c \in counts, w \in widths,
        h \in heights, s \in shapes, r \in flags }

Optional(S) == {None} \cup {Some(v) : v \in S}

\* the requests of a single invocation
Requests ==
    { [name |-> "other_tool", arguments |-> None],
      [name |-> "generate_face", arguments |-> None] }
    \cup
    { GenerateFace(a) :
        a \in ArgsOf(Optional({DirA}), Optional(FileNames), Optional(0..MaxReqCount),
                     Optional({SizeMinimum - 1, SizeMinimum}),
                     Optional({SizeMaximum + 1}),
                     Shapes, Optional(BOOLEAN)) }

\* the requests of two invocations that run together: the first writes text
\* results into DirA, the second returns inline images and may share the
\* directory, the file name, or (<<f_0>>, 1 against <<f>>, 2) one final name
ConcurrentRequests(inv) ==
    { GenerateFace(a) :
        a \in IF inv = 1
              THEN ArgsOf({Some(DirA)}, Optional({<<"f">>}),
                          {Some(c) : c \in 1..MaxConcurrentCount}, {None}, {None},
                          {[shape |-> None, borderRadius |-> None]}, {None})
              ELSE ArgsOf({Some(DirA), Some(DirB)}, Optional({<<"f">>, <<"f", "_", "0">>}),
                          Optional({2}), {None}, {None},
                          {[shape |-> None, borderRadius |-> None]}, {Some(TRUE)}) }

NoRequest == [name |-> "", arguments |-> None]

-----------------------------------------------------------------------------
(* The locals of the handler *)

Args(inv) == request[inv].arguments[1]
Count(inv) == OrDefault(Args(inv).count, DefaultCount)
Width(inv) == OrDefault(Args(inv).width, DefaultSize)
Height(inv) == OrDefault(Args(inv).height, DefaultSize)
ReturnImageContent(inv) == OrDefault(Args(inv).returnImageContent, FALSE)
OutputDir(inv) == Args(inv).outputDir[1]

\* the bytes the image source serves to fetch idx of invocation inv: fresh each time
Fetched(inv, idx) == [by |-> inv, fetch |-> idx]

Event(op, idx, at) == [op |-> op, idx |-> idx, at |-> at]

-----------------------------------------------------------------------------
(* Initial states *)

InitLocals ==
    /\ fileName = [inv \in Invocations |-> <<>>]
    /\ i = [inv \in Invocations |-> 0]
    /\ results = [inv \in Invocations |-> <<>>]
    /\ imageContents = [inv \in Invocations |-> <<>>]
    /\ imageBuffer = [inv \in Invocations |-> None]
    /\ response = [inv \in Invocations |-> None]
    /\ thrown = [inv \in Invocations |-> None]
    /\ caught = [inv \in Invocations |-> None]
    /\ errorCode = [inv \in Invocations |-> None]
    /\ trace = [inv \in Invocations |-> <<>>]
    /\ files = <<>>
    /\ now = 0

\* one invocation arrives
Init ==
    /\ \E r \in Requests : request = [inv \in Invocations |-> IF inv = 1 THEN r ELSE NoRequest]
    /\ pc = [inv \in Invocations |-> IF inv = 1 THEN "received" ELSE "absent"]
    /\ dirs \in {{}, {DirA}}
    /\ InitLocals

\* two invocations arrive
InitConcurrent ==
    /\ \E r1 \in ConcurrentRequests(1), r2 \in ConcurrentRequests(2) :
            request = [inv \in Invocations |-> IF inv = 1 THEN r1 ELSE r2]
    /\ pc = [inv \in Invocations |-> "received"]
    /\ dirs = {}
    /\ InitLocals

-----------------------------------------------------------------------------
(* The handler *)

\* throw before the try (lines 99-116): the async handler's promise rejects
Throw(inv, error) ==
    /\ pc' = [pc EXCEPT ![inv] = "thrown"]
    /\ thrown' = [thrown EXCEPT ![inv] = Some(error)]
    /\ UNCHANGED <<response, caught, errorCode>>

\* mutant: the error result also carries what the loop had collected
CatchKeepingPartial(inv, error) ==
    /\ pc' = [pc EXCEPT ![inv] = "returned"]
    /\ caught' = [caught EXCEPT ![inv] = Some(error)]
    /\ errorCode' = [errorCode EXCEPT ![inv] = Some(CatchError(error).code)]
    /\ response' = [response EXCEPT ![inv] =
            Some([content |-> ErrorResult(CatchError(error).message).content
                              \o imageContents[inv]
                              \o << [type |-> "text",
                                     text |-> <<"Generated ">> \o JoinLines(results[inv])] >>,
                  isError |-> TRUE])]
    /\ UNCHANGED thrown

\* the catch block (lines 210-258)
Catch(inv, error) ==
    /\ pc' = [pc EXCEPT ![inv] = "returned"]
    /\ caught' = [caught EXCEPT ![inv] = Some(error)]
    /\ errorCode' = [errorCode EXCEPT ![inv] = Some(CatchError(error).code)]
    /\ response' = [response EXCEPT ![inv] = Some(ErrorResult(CatchError(error).message))]
    /\ UNCHANGED thrown

\* mutant: the loop test is i <= count
LoopTestOffByOne(inv, idx, paths, images, history) ==
    /\ i' = [i EXCEPT ![inv] = idx]
    /\ results' = [results EXCEPT ![inv] = paths]
    /\ imageContents' = [imageContents EXCEPT ![inv] = images]
    /\ IF idx <= Count(inv)
       THEN /\ pc' = [pc EXCEPT ![inv] = "fetch"]
            /\ trace' = [trace EXCEPT ![inv] = Append(history, Event("fetch", idx, "start"))]
            /\ UNCHANGED response
       ELSE /\ pc' = [pc EXCEPT ![inv] = "returned"]
            /\ trace' = [trace EXCEPT ![inv] = history]
            /\ response' = [response EXCEPT ![inv] =
                    Some(SuccessResult(ReturnImageContent(inv), Count(inv), paths, images))]
    /\ UNCHANGED <<thrown, caught, errorCode>>

\* the loop test (line 138) with the locals as they are now: the next fetch is
\* issued (line 140), or the loop is left and the handler returns (lines 198-209)
LoopTest(inv, idx, paths, images, history) ==
    /\ i' = [i EXCEPT ![inv] = idx]
    /\ results' = [results EXCEPT ![inv] = paths]
    /\ imageContents' = [imageContents EXCEPT ![inv] = images]
    /\ IF idx < Count(inv)
       THEN /\ pc' = [pc EXCEPT ![inv] = "fetch"]
            /\ trace' = [trace EXCEPT ![inv] = Append(history, Event("fetch", idx, "start"))]
            /\ UNCHANGED response
       ELSE /\ pc' = [pc EXCEPT ![inv] = "returned"]
            /\ trace' = [trace EXCEPT ![inv] = history]
            /\ response' = [response EXCEPT ![inv] =
                    Some(SuccessResult(ReturnImageContent(inv), Count(inv), paths, images))]
    /\ UNCHANGED <<thrown, caught, errorCode>>

\* lines 99-134: the handler up to its first await
Begin(inv) ==
    /\ pc[inv] = "received"
    /\ UNCHANGED <<request, i, results, imageContents, imageBuffer, files>>
    /\ \/ /\ request[inv].name # "generate_face"
          /\ Throw(inv, UnknownToolError(request[inv].name))
          /\ UNCHANGED <<fileName, trace, dirs, now>>
       \/ /\ request[inv].name = "generate_face"
          /\ request[inv].arguments = None
          /\ Throw(inv, ArgumentsRequiredError)
          /\ UNCHANGED <<fileName, trace, dirs, now>>
       \/ /\ request[inv].name = "generate_face"
          /\ request[inv].arguments # None
          /\ \E t \in now..MaxClock :
                /\ IsSome(Args(inv).fileName) => t = now
                /\ now' = t
                /\ fileName' = [fileName EXCEPT ![inv] =
                                    OrDefault(Args(inv).fileName, DefaultFileName(t))]
          /\ \/ /\ Args(inv).outputDir = None
                /\ Catch(inv, PathTypeError)
                /\ trace' = [trace EXCEPT ![inv] = <<Event("mkdir", 0, "failed")>>]
                /\ UNCHANGED dirs
             \/ /\ Args(inv).outputDir # None
                /\ OutputDir(inv) \in dirs
                /\ pc' = [pc EXCEPT ![inv] = "import"]
                /\ UNCHANGED <<trace, dirs, response, thrown, caught, errorCode>>
             \/ /\ Args(inv).outputDir # None
                /\ OutputDir(inv) \notin dirs
                /\ dirs' = dirs \cup {OutputDir(inv)}
                /\ trace' = [trace EXCEPT ![inv] = <<Event("mkdir", 0, "done")>>]
                /\ pc' = [pc EXCEPT ![inv] = "import"]
                /\ UNCHANGED <<response, thrown, caught, errorCode>>
             \/ /\ Args(inv).outputDir # None
                /\ OutputDir(inv) \notin dirs
                /\ \E error \in MkdirErrors : Catch(inv, error)
                /\ trace' = [trace EXCEPT ![inv] = <<Event("mkdir", 0, "failed")>>]
                /\ UNCHANGED dirs

\* line 134 resolves; lines 135-142
ImportResolve(inv) ==
    /\ pc[inv] = "import"
    /\ LoopTest(inv, 0, <<>>, <<>>, trace[inv])
    /\ UNCHANGED <<request, fileName, imageBuffer, dirs, files, now>>

\* line 134 rejects
ImportReject(inv) ==
    /\ pc[inv] = "import"
    /\ \E error \in ImportErrors : Catch(inv, error)
    /\ UNCHANGED <<request, fileName, i, results, imageContents, imageBuffer, trace,
                   dirs, files, now>>

\* line 140 resolves; lines 145-173 build the pipeline and issue toBuffer
FetchResolve(inv) ==
    /\ pc[inv] = "fetch"
    /\ pc' = [pc EXCEPT ![inv] = "mask"]
    /\ trace' = [trace EXCEPT ![inv] =
                    trace[inv] \o << Event("fetch", i[inv], "done"),
                                     Event("mask", i[inv], "start") >>]
    /\ UNCHANGED <<request, fileName, i, results, imageContents, imageBuffer,
                   response, thrown, caught, errorCode, dirs, files, now>>

\* line 140 rejects
FetchReject(inv) ==
    /\ pc[inv] = "fetch"
    /\ \E error \in FetchErrors : Catch(inv, error)
    /\ trace' = [trace EXCEPT ![inv] = Append(trace[inv], Event("fetch", i[inv], "failed"))]
    /\ UNCHANGED <<request, fileName, i, results, imageContents, imageBuffer,
                   dirs, files, now>>

\* line 173 resolves; lines 174-185 issue writeFile
MaskResolve(inv) ==
    /\ pc[inv] = "mask"
    /\ pc' = [pc EXCEPT ![inv] = "write"]
    /\ imageBuffer' = [imageBuffer EXCEPT ![inv] =
            Some(ProcessImage(Fetched(inv, i[inv]), Args(inv), Width(inv), Height(inv)))]
    /\ trace' = [trace EXCEPT ![inv] =
                    trace[inv] \o << Event("mask", i[inv], "done"),
                                     Event("write", i[inv], "start") >>]
    /\ UNCHANGED <<request, fileName, i, results, imageContents,
                   response, thrown, caught, errorCode, dirs, files, now>>

\* line 173 rejects (or lines 145-146 throw)
MaskReject(inv) ==
    /\ pc[inv] = "mask"
    /\ \E error \in MaskErrors : Catch(inv, error)
    /\ trace' = [trace EXCEPT ![inv] = Append(trace[inv], Event("mask", i[inv], "failed"))]
    /\ UNCHANGED <<request, fileName, i, results, imageContents, imageBuffer,
                   dirs, files, now>>

\* the path of line 184 for the iteration in progress
CurrentPath(inv) ==
    FilePath(OutputDir(inv), FinalFileName(fileName[inv], Count(inv), i[inv]))

\* mutant: with returnImageContent the file is not written
WriteResolveUnlessInline(inv) ==
    /\ pc[inv] = "write"
    /\ files' = IF ReturnImageContent(inv) THEN files
                ELSE (CurrentPath(inv) :> imageBuffer[inv][1]) @@ files
    /\ LoopTest(inv, i[inv] + 1,
                Append(results[inv], CurrentPath(inv)),
                IF ReturnImageContent(inv)
                THEN Append(imageContents[inv], ImageEntry(imageBuffer[inv][1]))
                ELSE imageContents[inv],
                Append(trace[inv], Event("write", i[inv], "done")))
    /\ UNCHANGED <<request, fileName, imageBuffer, dirs, now>>

\* line 185 resolves; lines 187-196, then the loop test or the return
WriteResolve(inv) ==
    /\ pc[inv] = "write"
    /\ files' = (CurrentPath(inv) :> imageBuffer[inv][1]) @@ files
    /\ LoopTest(inv, i[inv] + 1,
                Append(results[inv], CurrentPath(inv)),
                IF ReturnImageContent(inv)
                THEN Append(imageContents[inv], ImageEntry(imageBuffer[inv][1]))
                ELSE imageContents[inv],
                Append(trace[inv], Event("write", i[inv], "done")))
    /\ UNCHANGED <<request, fileName, imageBuffer, dirs, now>>

\* line 185 rejects; a write that ran out of space may leave a truncated file
WriteReject(inv) ==
    /\ pc[inv] = "write"
    /\ \E error \in WriteErrors(CurrentPath(inv)) :
          /\ Catch(inv, error)
          /\ \/ UNCHANGED files
             \/ /\ error.code = "ENOSPC"
                /\ files' = (CurrentPath(inv) :> Truncated(imageBuffer[inv][1])) @@ files
    /\ trace' = [trace EXCEPT ![inv] = Append(trace[inv], Event("write", i[inv], "failed"))]
    /\ UNCHANGED <<request, fileName, i, results, imageContents, imageBuffer, dirs, now>>

Next ==
    \E inv \in Invocations :
        \/ Begin(inv)
        \/ ImportResolve(inv)
        \/ ImportReject(inv)
        \/ FetchResolve(inv)
        \/ FetchReject(inv)
        \/ MaskResolve(inv)
        \/ MaskReject(inv)
        \/ WriteResolve(inv)
        \/ WriteReject(inv)

Spec == Init /\ [][Next]_vars

SpecConcurrent == InitConcurrent /\ [][Next]_vars

-----------------------------------------------------------------------------
(* Vocabulary of the properties *)

HasArguments(inv) ==
    request[inv].name = "generate_face" /\ request[inv].arguments # None

InRange(n, lo, hi) == lo <= n /\ n <= hi

\* the request is within the bounds the tool's input schema declares (lines 52-72)
ValidRequest(inv) ==
    /\ HasArguments(inv)
    /\ Args(inv).outputDir # None
    /\ InRange(Count(inv), CountMinimum, CountMaximum)
    /\ InRange(Width(inv), SizeMinimum, SizeMaximum)
    /\ InRange(Height(inv), SizeMinimum, SizeMaximum)

OutOfRange(inv) ==
    /\ HasArguments(inv)
    /\ \/ ~InRange(Count(inv), CountMinimum, CountMaximum)
       \/ ~InRange(Width(inv), SizeMinimum, SizeMaximum)
       \/ ~InRange(Height(inv), SizeMinimum, SizeMaximum)

Returned(inv) == pc[inv] = "returned"
Succeeded(inv) == Returned(inv) /\ ~response[inv][1].isError
Failed(inv) == Returned(inv) /\ response[inv][1].isError
Content(inv) == response[inv][1].content

\* the events of one kind in a history
Positions(history, op, at) ==
    {k \in 1..Len(history) : history[k].op = op /\ history[k].at = at}
PositionsOf(history, op, idx, at) ==
    {k \in Positions(history, op, at) : history[k].idx = idx}
Failures(history) ==
    {k \in 1..Len(history) : history[k].at = "failed" /\ history[k].op # "mkdir"}

\* the image the code produces in iteration idx of inv, when nothing interferes
OwnImage(inv, idx) ==
    [format |-> "png", source |-> Fetched(inv, idx), width |-> Width(inv),
     height |-> Height(inv), mask |-> ShapeMask(Args(inv), Width(inv), Height(inv)),
     partial |-> FALSE]

Extensions == {DotJpg, DotJpeg, DotPng}

\* base is name with one trailing .jpg/.jpeg/.png, in any letter case, removed
IsBaseOf(base, name) ==
    \/ \E e \in Extensions :
          /\ Len(name) = Len(base) + Len(e)
          /\ SubSeq(name, 1, Len(base)) = base
          /\ Lower(SubSeq(name, Len(base) + 1, Len(name))) = e
    \/ /\ base = name
       /\ \A e \in Extensions : ~EndsWith(Lower(name), e)

\* the name the claim gives the k-th file (k from 1) of a request for count files
ExpectedName(base, count, k) ==
    IF count = 1 THEN base \o <<".", "p", "n", "g">>
    ELSE base \o <<"_", Digits[k]>> \o <<".", "p", "n", "g">>

-----------------------------------------------------------------------------
(* C1: a valid request that succeeds has produced exactly count files; one   *)
(* file is named <base>.png, n > 1 files are named <base>_0.png to           *)
(* <base>_{n-1}.png, pairwise distinct, <base> being fileName with one       *)
(* trailing .jpg/.jpeg/.png (in any case) removed.                           *)
C1_ArtifactNames ==
    \A inv \in Invocations :
        (pc[inv] # "absent" /\ ValidRequest(inv) /\ Succeeded(inv)) =>
            /\ Len(results[inv]) = Count(inv)
            /\ \A k, l \in 1..Len(results[inv]) : k # l => results[inv][k] # results[inv][l]
            /\ \E base \in {SubSeq(fileName[inv], 1, n) : n \in 0..Len(fileName[inv])} :
                  /\ IsBaseOf(base, fileName[inv])
                  /\ \A k \in 1..Len(results[inv]) :
                        /\ results[inv][k] =
                              OutputDir(inv) \o <<"/">> \o ExpectedName(base, Count(inv), k)
                        /\ results[inv][k] \in DOMAIN files

\* a request for three files named f.PNG has succeeded
C1_Witness ==
    \E inv \in Invocations :
        /\ pc[inv] # "absent" /\ ValidRequest(inv) /\ Succeeded(inv)
        /\ Count(inv) = 3
        /\ fileName[inv] = <<"f", ".", "P", "N", "G">>

-----------------------------------------------------------------------------
(* C2: a request whose width or height is outside [64,1024], or whose count  *)
(* is outside [1,10], fails with InvalidParams and touches no directory and  *)
(* no file.                                                                  *)
C2_RejectedWithoutSideEffects ==
    \A inv \in Invocations :
        (pc[inv] \notin {"absent", "received"} /\ OutOfRange(inv)
            /\ Args(inv).outputDir # None) =>
            /\ Positions(trace[inv], "mkdir", "done") = {}
            /\ Positions(trace[inv], "write", "start") = {}
            /\ pc[inv] = "returned" =>
                  /\ response[inv][1].isError
                  /\ errorCode[inv] = Some("InvalidParams")

-----------------------------------------------------------------------------
(* C3: once a fetch, mask or write has failed nothing more is fetched,       *)
(* masked or written, and the response is the error flag with exactly one    *)
(* text entry that carries no file and no image of the earlier iterations;   *)
(* no response has both the error flag and a success list.                   *)
C3_FailureAbortsInvocation ==
    \A inv \in Invocations :
        /\ \A k \in Failures(trace[inv]) :
              /\ k = Len(trace[inv])
              /\ Failed(inv)
        /\ (pc[inv] = "returned" /\ response[inv][1].isError) =>
              /\ Len(Content(inv)) = 1
              /\ Content(inv)[1].type = "text"
              /\ Content(inv)[1].text[1] = "Error generating face: "
              /\ \A k \in 1..Len(results[inv]) :
                    ~Includes(Content(inv)[1].text, results[inv][k])
        /\ (pc[inv] = "returned" /\ ~response[inv][1].isError) =>
              /\ Failures(trace[inv]) = {}
              /\ \A k \in 1..Len(Content(inv)) :
                    Content(inv)[k].type = "text" =>
                        Content(inv)[k].text[1] = "Generated "

\* the write of the second iteration has failed, with one file already listed
C3_Witness ==
    \E inv \in Invocations :
        /\ Failed(inv)
        /\ Len(results[inv]) = 1
        /\ ReturnImageContent(inv)
        /\ PositionsOf(trace[inv], "write", 1, "failed") # {}

-----------------------------------------------------------------------------
(* C4: when a fetch fails because the image source cannot be reached, at any *)
(* iteration, the invocation fails in the not-found class and has produced   *)
(* no artifact.                                                              *)
C4_UnreachableSourceLeavesNothing ==
    \A inv \in Invocations :
        (pc[inv] = "returned" /\ caught[inv] # None
            /\ caught[inv][1].class = "AxiosError" /\ caught[inv][1].code = "ENOTFOUND") =>
            /\ response[inv][1].isError
            /\ errorCode[inv] = Some("MethodNotFound")
            /\ DOMAIN files = {}

-----------------------------------------------------------------------------
(* C5: a successful response is, by returnImageContent, either exactly one   *)
(* text entry that lists the count and every generated path, or exactly      *)
(* count image entries of media type image/png; never a mix.                 *)
C5_ResultShape ==
    \A inv \in Invocations :
        (pc[inv] = "returned" /\ ~response[inv][1].isError) =>
            IF Args(inv).returnImageContent = Some(TRUE)
            THEN /\ Len(Content(inv)) = Count(inv)
                 /\ \A k \in 1..Len(Content(inv)) :
                       /\ Content(inv)[k].type = "image"
                       /\ Content(inv)[k].mimeType = "image/png"
                       /\ Content(inv)[k].data.encoding = "base64"
                       /\ Content(inv)[k].data.bytes = files[results[inv][k]]
            ELSE /\ Len(Content(inv)) = 1
                 /\ Content(inv)[1].type = "text"
                 /\ Includes(Content(inv)[1].text,
                             <<"Generated ">> \o <<Digits[Count(inv) + 1]>>)
                 /\ Len(results[inv]) = Count(inv)
                 /\ \A k \in 1..Len(results[inv]) :
                       Includes(Content(inv)[1].text, results[inv][k])

\* both kinds of successful response for two files
C5_Witness ==
    \E inv \in Invocations :
        /\ Succeeded(inv)
        /\ Count(inv) = 2
        /\ Args(inv).returnImageContent = Some(TRUE)
        /\ Len(Content(inv)) = 2

-----------------------------------------------------------------------------
\* the mask leaves every pixel of the rectangle opaque
OpaqueRectangle(mask) ==
    \/ mask.kind = "none"
    \/ mask.kind = "rect" /\ mask.rx = 0 /\ mask.ry = 0

(* C6: for shape rounded with borderRadius 0 the mask applied is that of     *)
(* shape square: a fully opaque rectangle, corner radius 0.                  *)
C6_RoundedZeroIsSquare ==
    \A inv \in Invocations :
        (imageBuffer[inv] # None /\ Args(inv).shape = Some("rounded")
            /\ Args(inv).borderRadius = Some(0)) =>
            /\ OpaqueRectangle(imageBuffer[inv][1].mask)
            /\ OpaqueRectangle(ShapeMask([Args(inv) EXCEPT !.shape = Some("square")],
                                         Width(inv), Height(inv)))

-----------------------------------------------------------------------------
(* Errors the catch block has no category for *)

SniffedWords ==
    { "ENOSPC", "EEXIST", "ENOENT", "Invalid width", "Invalid height",
      "Input buffer contains unsupported image format" }

\* an error the catch block has no category for
Uncategorized(error) ==
    \/ error.class = "AxiosError" /\ error.code # "ENOTFOUND"
    \/ /\ error.class = "Error"
       /\ \A k \in 1..Len(error.message) : error.message[k] \notin SniffedWords

\* C7, as claimed: every failure of a tool invocation, an unknown tool name and
\* a missing arguments object included, is returned as an error result, an
\* uncategorized one in the InternalError class with its message; the handler
\* throws nothing.
C7_NothingPropagates ==
    \A inv \in Invocations :
        /\ pc[inv] # "thrown"
        /\ thrown[inv] = None
        /\ (caught[inv] # None /\ Uncategorized(caught[inv][1])) =>
              /\ Failed(inv)
              /\ errorCode[inv] = Some("InternalError")
              /\ Includes(Content(inv)[1].text, caught[inv][1].message)

\* C7, as amended: every failure raised inside the try block (mkdir, import,
\* fetch, mask, write) is caught and returned as an error result of one text
\* entry, an uncategorized one in the InternalError class with its original
\* message; an unknown tool name and a missing arguments object are thrown by
\* the handler, with no result.
C7_CaughtInsideTry ==
    \A inv \in Invocations :
        /\ (pc[inv] = "thrown") <=> (thrown[inv] # None)
        /\ (pc[inv] \notin {"absent", "received"} /\ ~HasArguments(inv)) =>
              /\ pc[inv] = "thrown"
              /\ response[inv] = None
              /\ caught[inv] = None
              /\ thrown[inv][1].message \in
                    { <<"Unknown tool: ", request[inv].name>>, <<"Arguments are required">> }
        /\ (pc[inv] # "absent" /\ HasArguments(inv)) => thrown[inv] = None
        /\ (\E k \in 1..Len(trace[inv]) : trace[inv][k].at = "failed") => caught[inv] # None
        /\ caught[inv] # None =>
              /\ Failed(inv)
              /\ Len(Content(inv)) = 1
              /\ Content(inv)[1].type = "text"
              /\ Content(inv)[1].text[1] = "Error generating face: "
        /\ (caught[inv] # None /\ Uncategorized(caught[inv][1])) =>
              /\ errorCode[inv] = Some("InternalError")
              /\ Includes(Content(inv)[1].text, caught[inv][1].message)

\* an error of the image library that no category matches was caught in the loop
C7_Witness ==
    \E inv \in Invocations :
        /\ Failed(inv)
        /\ caught[inv] # None
        /\ caught[inv][1].message = <<"VipsJpeg: Premature end of input file">>
        /\ i[inv] = 1

-----------------------------------------------------------------------------
(* Order of the steps in a history *)

Before(history, event, p) == \E q \in 1..(p - 1) : history[q] = event

FetchesInFlight(history) ==
    Cardinality(Positions(history, "fetch", "start"))
        - Cardinality(Positions(history, "fetch", "done"))
        - Cardinality(Positions(history, "fetch", "failed"))

(* C9: within one invocation fetch(i) is done before mask(i) starts, mask(i) *)
(* before write(i) starts, write(i) before fetch(i+1) starts; at most one    *)
(* fetch is in flight and there are never more fetches than count.           *)
C9_StrictlySequential ==
    \A inv \in Invocations :
        LET h == trace[inv] IN
        /\ \A p \in 1..Len(h) :
              /\ (h[p].op = "mask" /\ h[p].at = "start") =>
                    Before(h, Event("fetch", h[p].idx, "done"), p)
              /\ (h[p].op = "write" /\ h[p].at = "start") =>
                    Before(h, Event("mask", h[p].idx, "done"), p)
              /\ (h[p].op = "fetch" /\ h[p].at = "start" /\ h[p].idx > 0) =>
                    Before(h, Event("write", h[p].idx - 1, "done"), p)
              /\ (h[p].op = "fetch" /\ h[p].at = "start") =>
                    \A q \in 1..(p - 1) :
                        (h[q].op = "fetch" /\ h[q].at = "start") => h[q].idx < h[p].idx
        /\ FetchesInFlight(h) \in {0, 1}
        /\ (FetchesInFlight(h) = 1) <=> (pc[inv] = "fetch")
        /\ HasArguments(inv) => Cardinality(Positions(h, "fetch", "start")) <= Count(inv)

\* three iterations have run to the end
C9_Witness ==
    \E inv \in Invocations :
        /\ Succeeded(inv)
        /\ Count(inv) = 3
        /\ Cardinality(Positions(trace[inv], "write", "done")) = 3

-----------------------------------------------------------------------------
(* The files of a directory *)

FilesUnder(dir) ==
    {path \in DOMAIN files : Len(path) > Len(dir) /\ SubSeq(path, 1, Len(dir) + 1) = dir \o <<"/">>}

(* C10: whatever returnImageContent is, a successful invocation leaves the   *)
(* output directory in place and exactly count files written under it.       *)
C10_FilesAlwaysWritten ==
    \A inv \in Invocations :
        (pc[inv] = "returned" /\ ~response[inv][1].isError) =>
            /\ OutputDir(inv) \in dirs
            /\ Cardinality(FilesUnder(OutputDir(inv))) = Count(inv)
            /\ Cardinality(Positions(trace[inv], "write", "done")) = Count(inv)
            /\ \A path \in FilesUnder(OutputDir(inv)) : ~files[path].partial

\* two files were written by a request that asked for inline images
C10_Witness ==
    \E inv \in Invocations :
        /\ Succeeded(inv)
        /\ Args(inv).returnImageContent = Some(TRUE)
        /\ Count(inv) = 2
        /\ Cardinality(DOMAIN files) = 2

-----------------------------------------------------------------------------
(* Two invocations side by side *)

Other(inv) == CHOOSE other \in Invocations : other # inv

Range(seq) == {seq[k] : k \in 1..Len(seq)}

\* the paths the claim's naming rule gives the files of inv
ExpectedPaths(inv) ==
    LET base == CHOOSE b \in {SubSeq(fileName[inv], 1, n) : n \in 0..Len(fileName[inv])} :
                    IsBaseOf(b, fileName[inv])
    IN  [k \in 1..Count(inv) |->
            OutputDir(inv) \o <<"/">> \o ExpectedName(base, Count(inv), k)]

\* the successful response of inv had it run alone
AloneContent(inv) ==
    IF Args(inv).returnImageContent = Some(TRUE)
    THEN [k \in 1..Count(inv) |->
            [type |-> "image", mimeType |-> "image/png",
             data |-> [encoding |-> "base64", bytes |-> OwnImage(inv, k - 1)]]]
    ELSE << [type |-> "text",
             text |-> <<"Generated ", Digits[Count(inv) + 1], " face image(s):", "\n">>
                      \o JoinLines(ExpectedPaths(inv))] >>

ResponseAsAlone(inv) ==
    /\ Succeeded(inv) =>
          /\ results[inv] = ExpectedPaths(inv)
          /\ Content(inv) = AloneContent(inv)
    /\ Failed(inv) =>
          /\ caught[inv] # None
          /\ Len(Content(inv)) = 1
          /\ Content(inv)[1].type = "text"
          /\ Content(inv)[1].text[1] = "Error generating face: "
          /\ Len(results[inv]) = i[inv]
          /\ \A k \in 1..Len(results[inv]) : results[inv][k] = ExpectedPaths(inv)[k]

\* the paths inv writes to, once it has computed its file name
Targets(inv) == IF pc[inv] = "received" THEN {} ELSE Range(ExpectedPaths(inv))

\* C8, as claimed: two invocations that interleave, whatever outputDir and
\* fileName they use, each get the response they would get alone, and every
\* file an invocation reports holds that invocation's image: the other one
\* never overwrites it.
C8_Independent ==
    \A inv \in Invocations :
        /\ ResponseAsAlone(inv)
        /\ Succeeded(inv) =>
              \A k \in 1..Len(results[inv]) :
                  /\ results[inv][k] \in DOMAIN files
                  /\ files[results[inv][k]] = OwnImage(inv, k - 1)

\* C8, as amended: two invocations that interleave each get the response they
\* would get alone; a file an invocation reports holds that invocation's
\* image as long as the other invocation has no file of the same path (the
\* same outputDir and the same final name); a path both write to holds what
\* was written last.
C8_IndependentUnlessSamePath ==
    \A inv \in Invocations :
        /\ ResponseAsAlone(inv)
        /\ Succeeded(inv) =>
              \A k \in 1..Len(results[inv]) :
                  /\ results[inv][k] \in DOMAIN files
                  /\ results[inv][k] \notin Targets(Other(inv)) =>
                        files[results[inv][k]] = OwnImage(inv, k - 1)
                  /\ files[results[inv][k]].source.by = inv
                        => files[results[inv][k]] = OwnImage(inv, k - 1)

\* both have succeeded in the same directory, with the same file name, on
\* different final names (f.png beside f_0.png and f_1.png)
C8_Witness ==
    /\ \A inv \in Invocations : Succeeded(inv)
    /\ OutputDir(1) = OutputDir(2)
    /\ fileName[1] = fileName[2]
    /\ Count(1) = 1 /\ Count(2) = 2
    /\ Cardinality(DOMAIN files) = 3

====
